---------------------------- MODULE Spec2Model ----------------------------
(***************************************************************************)
(* Model of the adaptive scan of ae-gpcam: the plan adaptive_plan           *)
(* (bluesky_config/ipython/profile_default/startup/01-adaptive.py), the     *)
(* strip transforms and the snap function it is run with, and the           *)
(* RedisQueue channel (00-base.py, adaptive_gpcam_consumer.py) that carries *)
(* the recommendations; and, as functions called on their own, the          *)
(* transforms and the snap function of sample_geometry.py (GeoSpec).        *)
(*                                                                          *)
(* Lengths are in units of 0.25 mm, so that cell_size = 4.5 mm = 18 and     *)
(* cell_size / 2 = 9 are integers.  The strips below have 6 % Ti per cell,  *)
(* i.e. 3 length units per % Ti, and the motors rest on multiples of 3, so  *)
(* that every np.interp the plan evaluates is an exact integer division.    *)
(***************************************************************************)
EXTENDS Integers, Sequences, FiniteSets, TLC

\* ------------------------------------------------------------------ bounds
\* the recommender side puts at most MaxPuts values while the plan runs
MaxPuts == 2
\* the interpreter gives up (RecursionError) on the call that would put more
\* than RecursionLimit frames of snap on the stack
RecursionLimit == 3
\* the measurements of one call of adaptive_plan beside the callback
MaxRuns == 3
\* the measurements of one sample an agent is told of
MaxTells == 2
\* rng.random() returns one of 0, 1/Units, ..., (Units - 1)/Units
Units == 2

\* ------------------------------------------------------- program constants
\* cell_size=4.5 (mm), in units of 0.25 mm
cell_size == 18
\* tolerances the snap function is built with
temp_tol == 10
time_tol == 5
Ti_tol == 5

\* json.dumps(None) == "null" / json.loads("null") is None
None == <<>>

\* ------------------------------------------------------------- the strips
\* StripInfo(temperature, annealing_time, ti_fractions, start_position,
\*           strip_center)
StripInfo(temperature, annealing_time, ti_fractions, start_position, strip_center) ==
    [temperature |-> temperature, annealing_time |-> annealing_time,
     ti_fractions |-> ti_fractions, start_position |-> start_position,
     strip_center |-> strip_center]

\* the strip list the transform pair and the snap function are built from
strips ==
    << StripInfo(340, 450, <<10, 16, 22>>, 0, 0),
       StripInfo(400, 450, <<16, 22, 28>>, 0, -20) >>

RECURSIVE SeqMin(_), SeqMax(_)
SeqMin(s) ==
    IF Len(s) = 1 THEN s[1]
    ELSE LET m == SeqMin(Tail(s)) IN IF s[1] < m THEN s[1] ELSE m
SeqMax(s) ==
    IF Len(s) = 1 THEN s[1]
    ELSE LET m == SeqMax(Tail(s)) IN IF s[1] > m THEN s[1] ELSE m

ti_min(strip) == SeqMin(strip.ti_fractions)
ti_max(strip) == SeqMax(strip.ti_fractions)

\* np.interp(x, xp, fp): fp[-1] when x > xp[-1], else fp[0] when x < xp[0]
\* (numpy tests in this order and does not check that xp increases: with a
\* decreasing xp one of the two always applies), else linear between the two
\* neighbours.  On the grid of this model the division is exact.
interp(x, xp, fp) ==
    IF x > xp[Len(xp)] THEN fp[Len(fp)]
    ELSE IF x < xp[1] THEN fp[1]
    ELSE IF x = xp[Len(xp)] THEN fp[Len(fp)]
    ELSE LET i == CHOOSE k \in 1..(Len(xp) - 1) : xp[k] <= x /\ x < xp[k + 1]
         IN  fp[i] + ((x - xp[i]) * (fp[i + 1] - fp[i])) \div (xp[i + 1] - xp[i])

\* cell_positions = start_position + np.arange(len(ti_fractions)) * cell_size
cell_positions(strip) ==
    [k \in 1..Len(strip.ti_fractions) |-> strip.start_position + (k - 1) * cell_size]

\* A transform or the snap function either returns a value or raises.
Ok(v) == [ok |-> TRUE, val |-> v]
Raise(e) == [ok |-> FALSE, val |-> e]

\* single_strip_factory.to_bl_coords
to_bl_coords(strip, Ti_frac, temperature, annealing_time) ==
    IF strip.temperature # temperature \/ annealing_time # strip.annealing_time
    THEN Raise("ValueError")
    ELSE IF Ti_frac > ti_max(strip) \/ Ti_frac < ti_min(strip)
    THEN Raise("ValueError")
    ELSE Ok(<< interp(Ti_frac, strip.ti_fractions, cell_positions(strip)),
               strip.strip_center >>)

\* single_strip_factory.to_data_coords
to_data_coords(strip, x, y) ==
    IF x < SeqMin(cell_positions(strip)) \/ x > SeqMax(cell_positions(strip))
    THEN Raise("ValueError")
    ELSE IF ~(2 * strip.strip_center - cell_size < 2 * y
              /\ 2 * y < 2 * strip.strip_center + cell_size)
    THEN Raise("ValueError")
    ELSE Ok(<< interp(x, cell_positions(strip), strip.ti_fractions),
               strip.temperature, strip.annealing_time >>)

\* the first index, in input order, of a non-empty set of strip indices
First(I) == CHOOSE i \in I : \A k \in I : i <= k

\* single_strip_set_factory.forward: the first strip of the key, in input
\* order, whose ti range holds Ti_frac
forward(Ti_frac, temperature, annealing_time) ==
    LET candidates == { i \in 1..Len(strips) :
                            /\ strips[i].temperature = temperature
                            /\ strips[i].annealing_time = annealing_time }
        fit == { i \in candidates :
                     ti_min(strips[i]) <= Ti_frac /\ Ti_frac <= ti_max(strips[i]) }
    IN  IF fit = {} THEN Raise("ValueError")
        ELSE to_bl_coords(strips[First(fit)], Ti_frac, temperature, annealing_time)

\* single_strip_set_factory.inverse: the first strip whose band holds y
inverse(x, y) ==
    LET inband == { i \in 1..Len(strips) :
                        /\ 2 * strips[i].strip_center - cell_size < 2 * y
                        /\ 2 * y < 2 * strips[i].strip_center + cell_size }
    IN  IF inband = {} THEN Raise("ValueError")
        ELSE to_data_coords(strips[First(inband)], x, y)

Abs(a) == IF a < 0 THEN -a ELSE a

\* np.clip(v, lo, hi) == minimum(hi, maximum(v, lo))
clip(v, lo, hi) ==
    LET m == IF v < lo THEN lo ELSE v IN IF m > hi THEN hi ELSE m

\* l2_norm(strip) ** 2: np.hypot orders as its square does
l2_norm2(strip, temperature, annealing_time) ==
    (strip.temperature - temperature) * (strip.temperature - temperature)
    + (strip.annealing_time - annealing_time) * (strip.annealing_time - annealing_time)

\* snap_factory.snap: the filters, min() (the first strip at minimal
\* distance, or ValueError on an empty sequence), np.clip
snap(Ti, temperature, annealing_time) ==
    LET l_strips == { i \in 1..Len(strips) :
                          /\ Abs(strips[i].temperature - temperature) < temp_tol
                          /\ Abs(strips[i].annealing_time - annealing_time) < time_tol
                          /\ ti_min(strips[i]) - Ti_tol <= Ti
                          /\ Ti <= ti_max(strips[i]) + Ti_tol }
        d(i) == l2_norm2(strips[i], temperature, annealing_time)
    IN  IF l_strips = {} THEN Raise("ValueError")
        ELSE LET best == strips[First({ i \in l_strips :
                                            \A k \in l_strips : d(i) <= d(k) })]
             IN  Ok(<< clip(Ti, ti_min(best), ti_max(best)),
                       best.temperature, best.annealing_time >>)

\* ----------------------------------------------------------- dictionaries
\* A dict is the sequence of its (key, value) pairs in insertion order; None
\* and the empty dict are both <<>>, as in "md or {}".
dict_keys(d) == { d[i][1] : i \in 1..Len(d) }
dict_get(d, k) == d[CHOOSE i \in 1..Len(d) : d[i][1] = k][2]
\* d[k] = v
dict_set(d, k, v) ==
    IF k \in dict_keys(d)
    THEN [i \in 1..Len(d) |-> IF d[i][1] = k THEN << k, v >> ELSE d[i]]
    ELSE Append(d, << k, v >>)
\* d.update(other), also {**d, **other}: the values of other win
dict_update(d, other) ==
    LET F[i \in 0..Len(other)] ==
            IF i = 0 THEN d ELSE dict_set(F[i - 1], other[i][1], other[i][2])
    IN  F[Len(other)]

\* ---------------------------------------------------- sample_geometry.py
\* The transforms of sample_geometry.py have a fourth coordinate, the
\* thickness, and strips with a reference point, a start distance and an
\* angle.  Every strip of this model has angle 0 and the points given to the
\* inverse transforms are such that np.hypot is an integer and the division
\* below is exact.
sg_StripInfo(temperature, annealing_time, ti_fractions, reference_x, reference_y, start_distance, angle, thickness) ==
    [temperature |-> temperature, annealing_time |-> annealing_time,
     ti_fractions |-> ti_fractions, reference_x |-> reference_x,
     reference_y |-> reference_y, start_distance |-> start_distance,
     angle |-> angle, thickness |-> thickness]

\* cell_positions = np.arange(len(ti_fractions)) * cell_size
sg_cell_positions(ti_fractions) ==
    [k \in 1..Len(ti_fractions) |-> (k - 1) * cell_size]

\* np.cos, np.sin of the angle of a strip
cos(angle) == CASE angle = 0 -> 1
sin(angle) == CASE angle = 0 -> 0

\* np.hypot, on the points where it is an integer
hypot(a, b) == CHOOSE r \in 0..(Abs(a) + Abs(b)) : r * r = a * a + b * b

\* faulty variant: the ends of the ti range are refused
sg_to_bl_coords_open(strip, Ti_frac, temperature, annealing_time, thickness) ==
    IF \/ strip.temperature # temperature
       \/ annealing_time # strip.annealing_time
       \/ strip.thickness # thickness
    THEN Raise("ValueError")
    ELSE IF \/ Ti_frac >= SeqMax(strip.ti_fractions)
            \/ Ti_frac <= SeqMin(strip.ti_fractions)
    THEN Raise("ValueError")
    ELSE LET d == interp(Ti_frac, strip.ti_fractions,
                         sg_cell_positions(strip.ti_fractions))
                  - strip.start_distance + cell_size \div 2
         IN  Ok(<< strip.reference_x - cos(strip.angle) * d,
                   strip.reference_y - sin(strip.angle) * d >>)

\* single_strip_transform_factory.to_bl_coords
sg_to_bl_coords(strip, Ti_frac, temperature, annealing_time, thickness) ==
    IF \/ strip.temperature # temperature
       \/ annealing_time # strip.annealing_time
       \/ strip.thickness # thickness
    THEN Raise("ValueError")
    ELSE IF \/ Ti_frac > SeqMax(strip.ti_fractions)
            \/ Ti_frac < SeqMin(strip.ti_fractions)
    THEN Raise("ValueError")
    ELSE LET d == interp(Ti_frac, strip.ti_fractions,
                         sg_cell_positions(strip.ti_fractions))
                  - strip.start_distance + cell_size \div 2
         IN  Ok(<< strip.reference_x - cos(strip.angle) * d,
                   strip.reference_y - sin(strip.angle) * d >>)

\* single_strip_transform_factory.to_data_coords.  With
\* from_center_angle = -arctan2(y_rel, x_rel) - angle (arctan2(0, 0) = 0),
\* r * cos(from_center_angle) = x_rel * cos(angle) - y_rel * sin(angle) and
\* r * sin(from_center_angle) = -y_rel * cos(angle) - x_rel * sin(angle).
sg_to_data_coords(strip, x, y) ==
    LET x_rel == -(x - strip.reference_x)
        y_rel == y - strip.reference_y
        r == hypot(x_rel, y_rel)
        cell_positions_ == sg_cell_positions(strip.ti_fractions)
        d == IF r = 0
             THEN cos(strip.angle) * (strip.start_distance - cell_size \div 2)
             ELSE ((x_rel * cos(strip.angle) - y_rel * sin(strip.angle))
                   * (r + strip.start_distance - cell_size \div 2)) \div r
        h == y_rel * cos(strip.angle) + x_rel * sin(strip.angle)
    IN  IF ~(SeqMin(cell_positions_) < d /\ d < SeqMax(cell_positions_))
        THEN Raise("ValueError")
        ELSE IF ~(-cell_size < 2 * h /\ 2 * h < cell_size)
        THEN Raise("ValueError")
        ELSE Ok(<< interp(d, cell_positions_, strip.ti_fractions),
                   strip.temperature, strip.annealing_time, strip.thickness >>)

\* the key of a strip in by_annealing
sg_key(strip) == << strip.temperature, strip.annealing_time, strip.thickness >>

\* defaultdict(list).__getitem__: a missing key is inserted with an empty list
defaultdict_getitem(dd, key) ==
    IF key \in dict_keys(dd) THEN dd ELSE dict_set(dd, key, <<>>)

\* strip_list_transform_factory: by_annealing as the loop builds it, the
\* pair of a strip being written as the index of the strip
sg_by_annealing(sl) ==
    LET F[i \in 0..Len(sl)] ==
            IF i = 0 THEN <<>>
            ELSE LET dd == defaultdict_getitem(F[i - 1], sg_key(sl[i]))
                 IN  dict_set(dd, sg_key(sl[i]),
                              Append(dict_get(dd, sg_key(sl[i])), i))
    IN  F[Len(sl)]

\* strip_list_transform_factory: by_strip as the loop builds it
sg_by_strip(sl) ==
    LET F[i \in 0..Len(sl)] ==
            IF i = 0 THEN <<>> ELSE dict_set(F[i - 1], sl[i], i)
    IN  F[Len(sl)]

\* faulty variant: the last candidate whose ti range holds Ti_frac is used
sg_forward_last(dd, sl, Ti_frac, temperature, annealing_time, thickness) ==
    LET candidates ==
            dict_get(defaultdict_getitem(dd, << temperature, annealing_time,
                                               thickness >>),
                     << temperature, annealing_time, thickness >>)
        fit == { n \in 1..Len(candidates) :
                     /\ ti_min(sl[candidates[n]]) <= Ti_frac
                     /\ Ti_frac <= ti_max(sl[candidates[n]]) }
    IN  IF fit = {} THEN Raise("ValueError")
        ELSE sg_to_bl_coords(sl[candidates[CHOOSE n \in fit : \A k \in fit : k <= n]],
                             Ti_frac, temperature, annealing_time, thickness)

\* strip_list_transform_factory.forward, by_annealing being dd before the
\* call: what it returns or raises
sg_forward(dd, sl, Ti_frac, temperature, annealing_time, thickness) ==
    LET candidates ==
            dict_get(defaultdict_getitem(dd, << temperature, annealing_time,
                                               thickness >>),
                     << temperature, annealing_time, thickness >>)
        fit == { n \in 1..Len(candidates) :
                     /\ ti_min(sl[candidates[n]]) <= Ti_frac
                     /\ Ti_frac <= ti_max(sl[candidates[n]]) }
    IN  IF fit = {} THEN Raise("ValueError")
        ELSE sg_to_bl_coords(sl[candidates[First(fit)]],
                             Ti_frac, temperature, annealing_time, thickness)

\* y is inside the band of the strip: reference_y +/- cell_size / 2
sg_in_band(strip, y) ==
    /\ 2 * strip.reference_y - cell_size < 2 * y
    /\ 2 * y < 2 * strip.reference_y + cell_size

\* faulty variant: the scan goes on to the next strip when the transform of a
\* strip refuses the point
sg_inverse_scan(bs, sl, x, y) ==
    LET accept == { n \in 1..Len(bs) :
                        /\ sg_in_band(bs[n][1], y)
                        /\ sg_to_data_coords(sl[bs[n][2]], x, y).ok }
    IN  IF accept = {} THEN Raise("ValueError")
        ELSE sg_to_data_coords(sl[bs[First(accept)][2]], x, y)

\* strip_list_transform_factory.inverse, by_strip being bs
sg_inverse(bs, sl, x, y) ==
    LET inband == { n \in 1..Len(bs) : sg_in_band(bs[n][1], y) }
    IN  IF inband = {} THEN Raise("ValueError")
        ELSE sg_to_data_coords(sl[bs[First(inband)][2]], x, y)

\* a tolerance of snap_factory: None, or a number v written Tol(v)
Tol(v) == << v >>

\* int(np.clip(np.round(thickness), 0, 1)), thickness being an integer
round_clip(thickness) == clip(thickness, 0, 1)

\* snap_factory.snap: the strips left by the filters, in the order of strips
l_strips(sl, tol, Ti, temperature, annealing_time, thickness) ==
    { i \in 1..Len(sl) :
          /\ sl[i].thickness = thickness
          /\ tol.temp_tol # None =>
                 Abs(sl[i].temperature - temperature) < tol.temp_tol[1]
          /\ tol.time_tol # None =>
                 Abs(sl[i].annealing_time - annealing_time) < tol.time_tol[1]
          /\ tol.Ti_tol # None =>
                 /\ ti_min(sl[i]) - tol.Ti_tol[1] <= Ti
                 /\ Ti <= ti_max(sl[i]) + tol.Ti_tol[1] }

\* snap_factory.snap, entered with depth - 1 frames of snap on the stack.
\* The result carries the number of frames of snap that were entered and the
\* index of the strip min() chose.
RECURSIVE sg_snap_frame(_, _, _, _, _, _, _)
sg_snap_frame(sl, tol, Ti, temperature, annealing_time, thickness, depth) ==
    IF depth > RecursionLimit
    THEN [ok |-> FALSE, val |-> "RecursionError", frames |-> depth - 1, best |-> 0]
    ELSE LET thickness_ == round_clip(thickness)
             l == l_strips(sl, tol, Ti, temperature, annealing_time, thickness_)
             d(i) == l2_norm2(sl[i], temperature, annealing_time)
         IN  IF l = {}
             THEN sg_snap_frame(sl, tol, Ti, temperature, annealing_time,
                                1 - thickness_, depth + 1)
             ELSE LET best == First({ i \in l : \A k \in l : d(i) <= d(k) })
                      best_Ti == clip(Ti, ti_min(sl[best]) + 1, ti_max(sl[best]) - 1)
                  IN  [ok |-> TRUE,
                       val |-> << best_Ti, sl[best].temperature,
                                  sl[best].annealing_time, sl[best].thickness >>,
                       frames |-> depth, best |-> best]

\* faulty variant: there is no second try with the other thickness
sg_snap_once(sl, tol, Ti, temperature, annealing_time, thickness) ==
    LET r == sg_snap_frame(sl, tol, Ti, temperature, annealing_time, thickness, 1)
    IN  IF r.frames > 1
        THEN [ok |-> FALSE, val |-> "ValueError", frames |-> 1, best |-> 0]
        ELSE r

\* faulty variant: of the strips at the least distance the last is chosen
sg_snap_last(sl, tol, Ti, temperature, annealing_time, thickness) ==
    LET r == sg_snap_frame(sl, tol, Ti, temperature, annealing_time, thickness, 1)
        l == l_strips(sl, tol, Ti, temperature, annealing_time, r.val[4])
        d(i) == l2_norm2(sl[i], temperature, annealing_time)
        near == { i \in l : \A k \in l : d(i) <= d(k) }
        best == CHOOSE i \in near : \A k \in near : k <= i
    IN  IF ~r.ok THEN r
        ELSE [ok |-> TRUE,
              val |-> << clip(Ti, ti_min(sl[best]) + 1, ti_max(sl[best]) - 1),
                         sl[best].temperature, sl[best].annealing_time,
                         sl[best].thickness >>,
              frames |-> r.frames, best |-> best]

\* snap_factory(sl, **tol)(Ti, temperature, annealing_time, thickness)
sg_snap(sl, tol, Ti, temperature, annealing_time, thickness) ==
    sg_snap_frame(sl, tol, Ti, temperature, annealing_time, thickness, 1)

\* ------------------------------------------- BlueskyHttpserverSession
\* An object is the dictionary of its instance attributes; the methods of the
\* class are found by name.  A URL is the tuple of its scheme, its network
\* location and its path.
Methods ==
    { "httpserver_post", "environment_open", "environment_close", "__enter__",
      "__exit__", "_post_to_sirepo", "simulation_list", "simulation_data",
      "run_simulation", "wait_for_simulation" }

\* self.name: the attribute is there, or AttributeError
getattr(self, name) ==
    IF name \in dict_keys(self) \cup Methods THEN Ok(name) ELSE Raise("AttributeError")

\* urllib.parse.urlparse
urlparse(url) == [scheme |-> url[1], netloc |-> url[2], path |-> url[3]]

\* an exception, as a value that can stand where None can
Exc(name) == << name >>

\* what a method leaves: the exception it raised or None, the object, the
\* requests the server has received
Left(exc, self, posts) == [exc |-> exc, self |-> self, posts |-> posts]

\* BlueskyHttpserverSession.__init__(bluesky_httpserver_url), on a new object
__init__(bluesky_httpserver_url) ==
    LET parsed_url == urlparse(bluesky_httpserver_url)
        self == dict_set(<<>>, "_bluesky_httpserver_url",
                         << parsed_url.scheme, "://", parsed_url.netloc >>)
    IN  IF ~getattr(self, "_server_url").ok
        THEN Left(Exc("AttributeError"), self, <<>>)
        ELSE Left(None, self, <<>>)

\* BlueskyHttpserverSession.httpserver_post(endpoint): requests.post returns
\* the response of a server that answers, whatever its status
httpserver_post(self, posts, endpoint, answers) ==
    LET endpoint_url == dict_get(self, "_bluesky_httpserver_url") \o << "/", endpoint >>
    IN  IF answers
        THEN Left(None, self, Append(posts, endpoint_url))
        ELSE Left(Exc("ConnectionError"), self, posts)

\* BlueskyHttpserverSession.environment_open
environment_open(self, posts, answers) ==
    IF ~getattr(self, "_httpserver_post").ok
    THEN Left(Exc("AttributeError"), self, posts)
    ELSE httpserver_post(self, posts, "environment/open", answers)

\* BlueskyHttpserverSession.environment_close
environment_close(self, posts, answers) ==
    IF ~getattr(self, "_httpserver_post").ok
    THEN Left(Exc("AttributeError"), self, posts)
    ELSE httpserver_post(self, posts, "environment/close", answers)

\* BlueskyHttpserverSession.__enter__
__enter__(self, posts, answers) == environment_open(self, posts, answers)

\* BlueskyHttpserverSession.__exit__(*exc): it returns False, so the
\* exception of the body is raised again, unless closing raised one itself
__exit__(self, posts, answers, exc) ==
    LET closed == environment_close(self, posts, answers)
    IN  IF closed.exc # None THEN closed ELSE Left(exc, self, closed.posts)

\* with BlueskyHttpserverSession(bluesky_httpserver_url=url) as s: body
\* where the body passes (None) or raises the exception body
with(url, body, answers) ==
    LET made == __init__(url)
        entered == __enter__(made.self, made.posts, answers)
    IN  IF made.exc # None THEN made
        ELSE IF entered.exc # None THEN entered
        ELSE __exit__(entered.self, entered.posts, answers, body)

\* the URLs given: that of the tests, other hosts and ports, a path
Urls ==
    { "http", "https" }
    \X { "localhost:60610", "localhost:8080", "qserver:60610", "qserver" }
    \X { "", "/", "/api" }
\* the body of the with statement: pass, or an exception it raises
Bodies == { None, Exc("ValueError"), Exc("KeyError") }

\* no with statement was run
NoSession ==
    [url |-> None, body |-> None, answers |-> FALSE, left |-> Left(None, <<>>, <<>>)]

\* ------------------------------------------------------------ MarkovAgent
\* The agent of adaptive_badseed_consumer.py.  Samples are numbered from 0;
\* quality and counter are written as sequences, sample i at place i + 1.
\* cum_sum is known by the tier quality_function gives it, which is the
\* quality of the sample.  current is None or << i >>.  Every turn of the
\* loop of ask draws from self.rng and so changes the generator: rng is the
\* parity of the turns drawn.
NoAgent ==
    [n_samples |-> 0, max_quality |-> 0, min_quality |-> 0, current |-> None,
     counter |-> <<>>, quality |-> <<>>, pc |-> "none", proposal |-> None,
     asked |-> None, rng |-> 0]

\* MarkovAgent.__init__(n_samples, max_quality, min_quality=1, seed=None)
MarkovAgent(n_samples, max_quality, min_quality) ==
    [n_samples |-> n_samples, max_quality |-> max_quality,
     min_quality |-> min_quality, current |-> None,
     counter |-> [i \in 1..n_samples |-> 0],
     quality |-> [i \in 1..n_samples |-> 0],
     pc |-> "idle", proposal |-> None, asked |-> None, rng |-> 0]

\* Agent.tell(y), tier being quality_function(self.cum_sum[self.current])
tell(self, tier) ==
    [self EXCEPT !.counter[self.current[1] + 1] = @ + 1,
                 !.quality[self.current[1] + 1] = tier]

\* Agent._default_quality: the tiers it returns
Tiers == { 1, 2, 3 }

\* MarkovAgent.ask, the test of one turn of its loop:
\* self.rng.random() < (max_quality - quality[proposal]) / (max_quality - min_quality)
\* with u = unit / Units the number rng.random() returned, 0 <= u < 1
accepts(self, proposal, unit) ==
    unit * (self.max_quality - self.min_quality)
        < Units * (self.max_quality - self.quality[proposal + 1])

\* ------------------------------------------------------------ the channel
\* json.dumps / json.loads of a recommendation (a mapping of the pseudo axes
\* to numbers, written here as the tuple of its values) or of None
json_dumps(value) == << "json", value >>
json_loads(text) == text[2]

\* redis LPUSH: the new element becomes the head of the list
lpush(list, element) == << element >> \o list
\* redis LPOP / BLPOP: the head of the list is removed and returned
lpop(list) == [ret |-> Head(list), rest |-> Tail(list)]

\* RedisQueue.put(value), n being the serial number of the put (a tag of the
\* model, carried beside the data)
RedisQueue_put(list, n, value) == lpush(list, [id |-> n, data |-> json_dumps(value)])

\* the list after the values of s have been put in order, numbered from 1
Preloaded(s) ==
    LET F[i \in 0..Len(s)] ==
            IF i = 0 THEN <<>> ELSE RedisQueue_put(F[i - 1], i, s[i])
    IN  F[Len(s)]

\* str(uuid.uuid4()) of the n-th call: a string no other call generates
uuid4(n) == << "uuid4", n >>

\* ---------------------------------------------------------------- inputs
\* requested points (Ti, temperature, annealing_time)
P0 == << 13, 500, 450 >>
P1 == << 13, 340, 450 >>
P2 == << 22, 400, 450 >>
P3 == << 26, 340, 450 >>

\* the first_point argument
FirstPoints == { P0, P1 }
\* what the recommender puts: a point or None
Recommendations == { P2, P3, None }
\* what is in the redis list when the plan starts, in the order it was put
Preloads == { <<>>, << P2 >>, << P2, P3, None >> }
\* reccomender_timeout, in units of 0.01 s: 0, 0.01 s, 1 s (the default)
Timeouts == { 0, 1, 100 }
\* where the motors come to rest, relative to the commanded position
Settle == { << 0, 0 >>, << -3, 0 >>, << 3, 0 >>, << 0, 9 >> }
\* the md argument: None (the default), metadata with a batch_count of the
\* caller's, metadata with a batch_id of the caller's
Mds == { None,
         << << "sample", << "Ti-Cu" >> >>, << "batch_count", 7 >> >>,
         << << "batch_id", << "mine" >> >> >> }

\* strip lists a transform pair and a snap function are built from: strips
\* as mounted; two strips of one key on one line, their ti ranges
\* overlapping; a strip with decreasing ti, a strip one % wide and a strip
\* that starts before its reference point; a strip whose two cells have one
\* ti (a strip less than one % wide)
AsMounted ==
    << sg_StripInfo(340, 450, << 16, 22, 28 >>, 360, 0, -36, 0, 0),
       sg_StripInfo(400, 450, << 16, 22, 28, 34 >>, 360, 36, 9, 0, 0),
       sg_StripInfo(400, 450, << 22, 28, 34 >>, 360, 72, 0, 0, 1) >>
OneLine ==
    << sg_StripInfo(340, 450, << 16, 22, 28 >>, 360, 0, 0, 0, 0),
       sg_StripInfo(340, 450, << 22, 28, 34 >>, 234, 0, 0, 0, 0),
       sg_StripInfo(400, 450, << 16, 22 >>, 360, 36, 0, 0, 1) >>
Unusual ==
    << sg_StripInfo(340, 450, << 28, 22, 16 >>, 360, 0, 0, 0, 0),
       sg_StripInfo(400, 450, << 17, 18 >>, 360, 36, 0, 0, 0),
       sg_StripInfo(400, 450, << 16, 22, 28 >>, 360, 72, 54, 0, 1) >>
Flat ==
    << sg_StripInfo(340, 450, << 17, 17 >>, 360, 0, 0, 0, 0),
       sg_StripInfo(400, 450, << 16, 22, 28 >>, 360, 36, 0, 0, 1) >>
Layouts == { AsMounted, OneLine, Unusual, Flat }

\* the tolerances snap_factory is given: none, those of adaptive_test.py, 0
Tols ==
    { [temp_tol |-> None, time_tol |-> None, Ti_tol |-> None],
      [temp_tol |-> Tol(temp_tol), time_tol |-> Tol(time_tol), Ti_tol |-> Tol(Ti_tol)],
      [temp_tol |-> Tol(0), time_tol |-> Tol(0), Ti_tol |-> None] }

\* points (Ti, temperature, annealing_time, thickness) given to forward
ForwardPoints ==
    { 10, 16, 17, 18, 22, 28, 34, 40 } \X { 340, 400 } \X { 450 } \X { 0, 1 }
\* points given to snap
SnapPoints ==
    { 10, 17, 22, 38, 40 } \X { 340, 350, 400 } \X { 450, 455 } \X { -1, 0, 1, 2 }
\* points (x, y) given to the inverse of a strip, as (reference_x - x,
\* y - reference_y): on the line of the strip, beside the strip, and, where
\* start_distance = cell_size / 2 makes the division exact, off the line
Offsets(strip) ==
    { << 0, 0 >>, << 0, cell_size >> }
    \cup { << cell_size \div 2 + k * cell_size, 0 >> : k \in -2..9 }
    \cup IF strip.start_distance = cell_size \div 2
         THEN { << 12, 5 >>, << 24, 10 >> }
         ELSE {}
\* points (x, y) given to the inverse of a strip list
InversePoints(sl) ==
    UNION { { << sl[i].reference_x - o[1], sl[i].reference_y + o[2] >> :
                  o \in Offsets(sl[i]) } : i \in 1..Len(sl) }

\* a document the run engine emits: its name, the run it belongs to (the
\* call of adaptive_plan and the uid of the run) and, for a start document,
\* its content
Document(name, of, doc) == [name |-> name, run |-> of, doc |-> doc]

\* no call is under way / nothing was returned
NoCall == [fn |-> "none", strip |-> 0, args |-> None, tol |-> None, of |-> None]
NoResult == [ok |-> FALSE, val |-> "none"]

VARIABLES
    strip_list,           \* the strips of the transform pair and of snap
    by_annealing,         \* strip_list_transform_factory: key -> strips
    by_strip,             \* strip_list_transform_factory: strip -> pair
    call,                 \* the call of a transform or of snap last made
    result,               \* what it returned or raised
    first_point,          \* argument: the first point
    snap_function,        \* argument: "snap" or "None"
    reccomender_timeout,  \* argument
    md,                   \* argument: the caller's metadata
    _md,                  \* the metadata of the call: batch_id, then md
    calls,                \* number of calls of adaptive_plan so far
    earlier,              \* the batch_id values in the runs of earlier calls
    alive,                \* a recommender process is feeding the channel
    queue,                \* the redis list "adaptive", head first
    nPre,                 \* number of entries in the list when the plan starts
    nPut,                 \* number of puts so far (serial number of the last)
    pc,                   \* position of gp_inner_plan
    j,                    \* loop counter
    next_point,
    target,
    real_target,
    motor,                \* position of (x_motor, y_motor)
    moving,               \* a set of the motors has not been waited for
    real_x,
    real_y,
    pseudo_target,
    ctrl,                 \* the soft pseudo axes (Ti, temp, anneal_time)
    uids,
    run,                  \* the documents of the latest run of take_reading
    starts,               \* batch_id, batch_count of each run of this call
    num,                  \* number of events in a run of take_reading
    zmq,                  \* documents published, not yet seen by the callback
    max_count,            \* argument of recommender_factory
    puts,                 \* the puts of the callback: serial number and cause
    session,              \* the with statement of a session and what it left
    agent,                \* the MarkovAgent of the badseed recommender
    ret,                  \* what the caller of adaptive_plan receives
    drained,              \* serial numbers returned by get(block=False)
    consumed,             \* serial numbers returned by get(timeout=...)
    trace                 \* the steps taken, each with its loop counter

\* the state of adaptive_plan and of its channel
plan_state ==
    << first_point, snap_function, reccomender_timeout, md, _md, calls,
       earlier, alive, queue, nPre, nPut, pc, j, next_point, target,
       real_target, motor, moving, real_x, real_y, pseudo_target, ctrl, uids,
       run, starts, ret, drained, consumed, trace, num, zmq, max_count, puts,
       session, agent >>
\* the state of the transforms of sample_geometry.py
geometry == << strip_list, by_annealing, by_strip, call, result >>

vars == << plan_state, geometry >>

\* the arguments, and what else no step of a running plan changes
args == << first_point, snap_function, reccomender_timeout, md, _md, calls,
           earlier, alive, nPre, geometry, num, max_count, puts, session,
           agent >>
channel == << queue, nPut >>
locals == << j, next_point, target, real_target, real_x, real_y, pseudo_target,
             uids >>
devices == << motor, moving, ctrl, run, starts, zmq >>
history == << drained, consumed >>

Log(step) == Append(trace, << step, j >>)

\* adaptive_plan is called for the first time, with a md of mds
Start(mds) ==
    /\ first_point \in FirstPoints
    /\ snap_function \in { "None", "snap" }
    /\ reccomender_timeout \in Timeouts
    /\ md \in mds
    /\ _md = dict_update(<< << "batch_id", uuid4(1) >> >>, md)
    /\ calls = 1
    /\ earlier = {}
    /\ alive \in BOOLEAN
    /\ \E pre \in Preloads : queue = Preloaded(pre) /\ nPre = Len(pre)
    /\ nPut = nPre
    /\ pc = "drain"
    /\ j = 0
    /\ next_point = None
    /\ target = None
    /\ real_target = << 0, 0 >>
    /\ motor = << 0, 0 >>
    /\ moving = FALSE
    /\ real_x = 0
    /\ real_y = 0
    /\ pseudo_target = None
    /\ ctrl = << 0, 0, 0 >>
    /\ uids = <<>>
    /\ run = [uid |-> 0, batch_id |-> None, batch_count |-> 0, x |-> 0, y |-> 0,
              ctrl |-> << 0, 0, 0 >>]
    /\ starts = <<>>
    /\ zmq = <<>>
    /\ puts = {}
    /\ session = NoSession
    /\ agent = NoAgent
    /\ ret = [kind |-> "pending", uids |-> <<>>]
    /\ drained = <<>>
    /\ consumed = <<>>
    /\ trace = <<>>

\* the transforms of sample_geometry.py are not built
NoGeometry ==
    /\ strip_list = <<>>
    /\ by_annealing = <<>>
    /\ by_strip = <<>>
    /\ call = NoCall
    /\ result = NoResult

\* the defaults: count takes one reading (num=1), max_count=10
Defaults ==
    /\ num = 1
    /\ max_count = 10

\* md=None, the default
Init == Start({ None }) /\ NoGeometry /\ Defaults

\* -------------------------------------------------------- the recommender
\* some recommender process puts a value (RedisQueue.put)
Put ==
    /\ alive
    /\ nPut - nPre < MaxPuts
    /\ \E value \in Recommendations :
           queue' = RedisQueue_put(queue, nPut + 1, value)
    /\ nPut' = nPut + 1
    /\ UNCHANGED << args, pc, locals, devices, ret, history, trace >>

\* ---------------------------------------------------------- adaptive_plan
\* an exception leaves gp_inner_plan and adaptive_plan: the caller gets the
\* exception, the frame and its uids list are gone
Raised(kind) ==
    /\ pc' = "raised"
    /\ ret' = [kind |-> kind, uids |-> <<>>]
    /\ trace' = Log(kind)

\* drain loop: from_recommender.get(block=False) returned an entry
DrainGet ==
    /\ pc = "drain"
    /\ queue # <<>>
    /\ queue' = lpop(queue).rest
    /\ drained' = Append(drained, lpop(queue).ret.id)
    /\ trace' = Log("drain_get")
    /\ UNCHANGED << args, nPut, pc, locals, devices, ret, consumed >>

\* faulty variant: the drain loop is missing
DrainEmpty_nodrain ==
    /\ pc = "drain"
    /\ pc' = "target"
    /\ uids' = <<>>
    /\ next_point' = first_point
    /\ j' = 0
    /\ UNCHANGED << args, channel, target, real_target, real_x, real_y,
                    pseudo_target, devices, ret, history, trace >>

\* faulty variant: the drain is an "if", not a "while": it stops after one entry
DrainEmpty_once ==
    /\ pc = "drain"
    /\ queue = <<>> \/ drained # <<>>
    /\ pc' = "target"
    /\ uids' = <<>>
    /\ next_point' = first_point
    /\ j' = 0
    /\ UNCHANGED << args, channel, target, real_target, real_x, real_y,
                    pseudo_target, devices, ret, history, trace >>

\* drain loop: get(block=False) raised Empty; uids = [], next_point = first_point
DrainEmpty ==
    /\ pc = "drain"
    /\ queue = <<>>
    /\ pc' = "target"
    /\ uids' = <<>>
    /\ next_point' = first_point
    /\ j' = 0
    /\ UNCHANGED << args, channel, target, real_target, real_x, real_y,
                    pseudo_target, devices, ret, history, trace >>

\* target = tuple(next_point[k.name] ...) with snap_function None
NoSnap ==
    /\ pc = "target"
    /\ snap_function = "None"
    /\ target' = next_point
    /\ pc' = "forward"
    /\ UNCHANGED << args, channel, j, next_point, real_target, real_x, real_y,
                    pseudo_target, uids, devices, ret, history, trace >>

\* target = snap_function(*target)
Snap ==
    /\ pc = "target"
    /\ snap_function = "snap"
    /\ LET r == snap(next_point[1], next_point[2], next_point[3])
       IN  /\ r.ok
           /\ target' = r.val
    /\ pc' = "forward"
    /\ trace' = Log("snap")
    /\ UNCHANGED << args, channel, j, next_point, real_target, real_x, real_y,
                    pseudo_target, uids, devices, ret, history >>

\* snap_function raised
SnapRaise ==
    /\ pc = "target"
    /\ snap_function = "snap"
    /\ LET r == snap(next_point[1], next_point[2], next_point[3])
       IN  /\ ~r.ok
           /\ Raised(r.val)
    /\ UNCHANGED << args, channel, locals, devices, history >>

\* real_target = transform_pair.forward(*target)
Forward ==
    /\ pc = "forward"
    /\ LET r == forward(target[1], target[2], target[3])
       IN  /\ r.ok
           /\ real_target' = r.val
    /\ pc' = "mov"
    /\ trace' = Log("forward")
    /\ UNCHANGED << args, channel, j, next_point, target, real_x, real_y,
                    pseudo_target, uids, devices, ret, history >>

\* transform_pair.forward raised
ForwardRaise ==
    /\ pc = "forward"
    /\ LET r == forward(target[1], target[2], target[3])
       IN  /\ ~r.ok
           /\ Raised(r.val)
    /\ UNCHANGED << args, channel, locals, devices, history >>

\* faulty variant: the motors are set and not waited for (bps.abs_set)
MovSet_nowait ==
    /\ pc = "mov"
    /\ moving' = TRUE
    /\ motor' = real_target
    /\ pc' = "rd_x"
    /\ trace' = Log("mov")
    /\ UNCHANGED << args, channel, locals, ctrl, run, starts, zmq, ret, history >>

\* yield from bps.mov(...): the motors are set ...
MovSet ==
    /\ pc = "mov"
    /\ moving' = TRUE
    /\ pc' = "mov_wait"
    /\ trace' = Log("mov")
    /\ UNCHANGED << args, channel, locals, motor, ctrl, run, starts, zmq, ret,
                    history >>

\* ... and waited for: they settle at or near the commanded position
MovDone ==
    /\ pc = "mov_wait"
    /\ \E d \in Settle :
           motor' = << real_target[1] + d[1], real_target[2] + d[2] >>
    /\ moving' = FALSE
    /\ pc' = "rd_x"
    /\ trace' = Log("settled")
    /\ UNCHANGED << args, channel, locals, ctrl, run, starts, zmq, ret, history >>

\* the move fails (an error of the actuator)
MovFail ==
    /\ pc = "mov_wait"
    /\ Raised("MoveError")
    /\ UNCHANGED << args, channel, locals, devices, history >>

\* real_x = yield from read_the_first_key(x_motor)
ReadX ==
    /\ pc = "rd_x"
    /\ real_x' = motor[1]
    /\ pc' = "rd_y"
    /\ trace' = Log("rd_x")
    /\ UNCHANGED << args, channel, j, next_point, target, real_target, real_y,
                    pseudo_target, uids, devices, ret, history >>

\* real_y = yield from read_the_first_key(y_motor)
ReadY ==
    /\ pc = "rd_y"
    /\ real_y' = motor[2]
    /\ pc' = "inverse"
    /\ trace' = Log("rd_y")
    /\ UNCHANGED << args, channel, j, next_point, target, real_target, real_x,
                    pseudo_target, uids, devices, ret, history >>

\* faulty variant: the pseudo axes get the (snapped) target, not the inverse of the
\* read-back position
Inverse_requested ==
    /\ pc = "inverse"
    /\ inverse(real_x, real_y).ok
    /\ pseudo_target' = target
    /\ pc' = "mv"
    /\ trace' = Log("inverse")
    /\ UNCHANGED << args, channel, j, next_point, target, real_target, real_x,
                    real_y, uids, devices, ret, history >>

\* pseudo_target = transform_pair.inverse(real_x, real_y)
Inverse ==
    /\ pc = "inverse"
    /\ LET r == inverse(real_x, real_y)
       IN  /\ r.ok
           /\ pseudo_target' = r.val
    /\ pc' = "mv"
    /\ trace' = Log("inverse")
    /\ UNCHANGED << args, channel, j, next_point, target, real_target, real_x,
                    real_y, uids, devices, ret, history >>

\* transform_pair.inverse raised
InverseRaise ==
    /\ pc = "inverse"
    /\ LET r == inverse(real_x, real_y)
       IN  /\ ~r.ok
           /\ Raised(r.val)
    /\ UNCHANGED << args, channel, locals, devices, history >>

\* yield from bps.mv(*chain(*zip(pseudo_axes, pseudo_target)))
Mv ==
    /\ pc = "mv"
    /\ ctrl' = pseudo_target
    /\ pc' = "take_reading"
    /\ trace' = Log("mv")
    /\ UNCHANGED << args, channel, locals, motor, moving, run, starts, zmq, ret,
                    history >>

\* faulty variant: md={"batch_count": j, **_md}, what the caller gave wins
TakeReadingOpen_mdwins ==
    /\ pc = "take_reading"
    /\ LET doc == dict_update(<< << "batch_count", j >> >>, _md)
       IN  /\ run' = [run EXCEPT !.uid = Len(uids) + 1,
                                 !.batch_id = dict_get(doc, "batch_id"),
                                 !.batch_count = dict_get(doc, "batch_count")]
           /\ starts' = Append(starts, [batch_id |-> dict_get(doc, "batch_id"),
                                        batch_count |-> dict_get(doc, "batch_count")])
           /\ zmq' = Append(zmq, Document("start", << calls, Len(uids) + 1 >>, doc))
    /\ pc' = "reading"
    /\ trace' = Log("take_reading")
    /\ UNCHANGED << args, channel, locals, motor, moving, ctrl, ret, history >>

\* take_reading(..., md={**_md, "batch_count": j}) opens its run: the start
\* document carries that metadata
TakeReadingOpen ==
    /\ pc = "take_reading"
    /\ LET doc == dict_set(_md, "batch_count", j)
       IN  /\ run' = [run EXCEPT !.uid = Len(uids) + 1,
                                 !.batch_id = dict_get(doc, "batch_id"),
                                 !.batch_count = dict_get(doc, "batch_count")]
           /\ starts' = Append(starts, [batch_id |-> dict_get(doc, "batch_id"),
                                        batch_count |-> dict_get(doc, "batch_count")])
           /\ zmq' = Append(zmq, Document("start", << calls, Len(uids) + 1 >>, doc))
    /\ pc' = "reading"
    /\ trace' = Log("take_reading")
    /\ UNCHANGED << args, channel, locals, motor, moving, ctrl, ret, history >>

\* take_reading reads dets + real_motors + [ctrl], closes the run and returns
\* its uid; uids.append(uid)
TakeReadingDone ==
    /\ pc = "reading"
    /\ run' = [run EXCEPT !.x = motor[1], !.y = motor[2], !.ctrl = ctrl]
    /\ zmq' = zmq \o << Document("descriptor", << calls, run.uid >>, None) >>
                  \o [n \in 1..num |-> Document("event", << calls, run.uid >>, None)]
                  \o << Document("stop", << calls, run.uid >>, None) >>
    /\ uids' = Append(uids, run.uid)
    /\ pc' = "get"
    /\ trace' = Log("uid")
    /\ UNCHANGED << args, channel, j, next_point, target, real_target, real_x,
                    real_y, pseudo_target, motor, moving, ctrl, starts, ret,
                    history >>

\* the measurement fails (an error of the detector): the run engine closes
\* the run, which has no event
TakeReadingFail ==
    /\ pc = "reading"
    /\ Raised("MeasureError")
    /\ zmq' = Append(zmq, Document("stop", << calls, run.uid >>, None))
    /\ UNCHANGED << args, channel, locals, motor, moving, ctrl, run, starts,
                    history >>

\* from_recommender.get(timeout=reccomender_timeout): BLPOP is issued
GetCall ==
    /\ pc = "get"
    /\ pc' = "blpop"
    /\ trace' = Log("get")
    /\ UNCHANGED << args, channel, locals, devices, ret, history >>

\* faulty variant: the head of the list is read and left in place (LINDEX, not LPOP)
GetPoint_peek ==
    /\ pc = "blpop"
    /\ queue # <<>>
    /\ json_loads(Head(queue).data) # None
    /\ next_point' = json_loads(Head(queue).data)
    /\ consumed' = Append(consumed, Head(queue).id)
    /\ j' = j + 1
    /\ pc' = "target"
    /\ trace' = Log("recv")
    /\ UNCHANGED << args, channel, target, real_target, real_x, real_y,
                    pseudo_target, uids, devices, ret, drained >>

\* BLPOP returns the head of the list, a recommendation: next iteration
GetPoint ==
    /\ pc = "blpop"
    /\ queue # <<>>
    /\ json_loads(lpop(queue).ret.data) # None
    /\ next_point' = json_loads(lpop(queue).ret.data)
    /\ queue' = lpop(queue).rest
    /\ consumed' = Append(consumed, lpop(queue).ret.id)
    /\ j' = j + 1
    /\ pc' = "target"
    /\ trace' = Log("recv")
    /\ UNCHANGED << args, nPut, target, real_target, real_x, real_y,
                    pseudo_target, uids, devices, ret, drained >>

\* BLPOP returns the head of the list, None: "return"
GetNone ==
    /\ pc = "blpop"
    /\ queue # <<>>
    /\ json_loads(lpop(queue).ret.data) = None
    /\ next_point' = None
    /\ queue' = lpop(queue).rest
    /\ consumed' = Append(consumed, lpop(queue).ret.id)
    /\ pc' = "done"
    /\ ret' = [kind |-> "None", uids |-> <<>>]
    /\ trace' = Log("recv")
    /\ UNCHANGED << args, nPut, j, target, real_target, real_x, real_y,
                    pseudo_target, uids, devices, drained >>

\* faulty variant: a timeout is caught and the get is issued again
GetTimeout_retry ==
    /\ pc = "blpop"
    /\ queue = <<>>
    /\ reccomender_timeout # 0
    /\ pc' = "get"
    /\ trace' = Log("TimeoutError")
    /\ UNCHANGED << args, channel, locals, devices, ret, history >>

\* faulty variant: the timeout is passed on as int(timeout), so a fraction of a
\* second becomes 0
GetTimeout_int ==
    /\ pc = "blpop"
    /\ queue = <<>>
    /\ reccomender_timeout \div 100 # 0
    /\ Raised("TimeoutError")
    /\ UNCHANGED << args, channel, locals, devices, history >>

\* BLPOP with a timeout other than 0 returns nil when the timeout expires with
\* the list still empty; with timeout 0 it blocks until an element arrives
GetTimeout ==
    /\ pc = "blpop"
    /\ queue = <<>>
    /\ reccomender_timeout # 0
    /\ Raised("TimeoutError")
    /\ UNCHANGED << args, channel, locals, devices, history >>

Plan ==
    \/ DrainGet \/ DrainEmpty
    \/ NoSnap \/ Snap \/ SnapRaise
    \/ Forward \/ ForwardRaise
    \/ MovSet \/ MovDone \/ MovFail
    \/ ReadX \/ ReadY
    \/ Inverse \/ InverseRaise
    \/ Mv
    \/ TakeReadingOpen \/ TakeReadingDone \/ TakeReadingFail
    \/ GetCall \/ GetPoint \/ GetNone \/ GetTimeout

Next == Put \/ Plan

Spec == Init /\ [][Next]_vars

\* The liveness claims are about a channel nobody puts on: every such start
\* is kept, and one start with a live recommender.
FairInit ==
    /\ Init
    /\ alive => /\ first_point = P1
                /\ snap_function = "snap"
                /\ reccomender_timeout = 100
                /\ nPre = 0

\* The run engine keeps stepping the plan and redis keeps its timers: a step
\* of the plan that stays possible is taken.  Nothing obliges a recommender
\* to put.
FairSpec == FairInit /\ [][Next]_vars /\ WF_vars(Plan)

\* ---------------------------------------------------- one call after another
\* adaptive_plan has ended and is called a second time in the same session,
\* with the same devices, channel and arguments: a new batch_id, a new
\* frame.  The entries left in the redis list are numbered anew, as those of
\* a list found at the start; the puts of the first call count in the bound
\* of Put.
Call ==
    /\ pc \in { "done", "raised" }
    /\ calls = 1
    /\ calls' = calls + 1
    /\ _md' = dict_update(<< << "batch_id", uuid4(calls + 1) >> >>, md)
    /\ earlier' = earlier \cup { starts[i].batch_id : i \in 1..Len(starts) }
    /\ starts' = <<>>
    /\ queue' = [i \in 1..Len(queue) |->
                     [queue[i] EXCEPT !.id = Len(queue) + 1 - i]]
    /\ nPre' = Len(queue)
    /\ nPut' = Len(queue) + (nPut - nPre)
    /\ pc' = "drain"
    /\ j' = 0
    /\ next_point' = None
    /\ target' = None
    /\ real_target' = << 0, 0 >>
    /\ real_x' = 0
    /\ real_y' = 0
    /\ pseudo_target' = None
    /\ uids' = <<>>
    /\ ret' = [kind |-> "pending", uids |-> <<>>]
    /\ drained' = <<>>
    /\ consumed' = <<>>
    /\ trace' = <<>>
    /\ puts' = UNION { { [p EXCEPT !.id = Len(queue) + 1 - i] :
                              p \in { q \in puts : q.id = queue[i].id } } :
                            i \in 1..Len(queue) }
    /\ UNCHANGED << first_point, snap_function, reccomender_timeout, md, alive,
                    motor, moving, ctrl, run, geometry, num, zmq, max_count,
                    session, agent >>

\* The first call finds the redis list empty and has the default timeout;
\* with a live recommender it is given a point that can be reached.
BatchInit ==
    /\ Start(Mds)
    /\ NoGeometry
    /\ Defaults
    /\ reccomender_timeout = 100
    /\ nPre = 0
    /\ alive => (first_point = P1 /\ snap_function = "snap")

BatchNext == Next \/ Call

BatchSpec == BatchInit /\ [][BatchNext]_vars

\* ------------------------------------------- calls of sample_geometry.py
\* pair = strip_list_transform_factory(strip_list) is built from one of the
\* strip lists; no plan is running
GeoInit ==
    /\ Start({ None })
    /\ Defaults
    /\ first_point = P1
    /\ snap_function = "snap"
    /\ reccomender_timeout = 100
    /\ ~alive
    /\ nPre = 0
    /\ strip_list \in Layouts
    /\ by_annealing = sg_by_annealing(strip_list)
    /\ by_strip = sg_by_strip(strip_list)
    /\ call = NoCall
    /\ result = NoResult

\* single_strip_transform_factory(*astuple(strip)).forward(*q)
ToBlCoords ==
    /\ call = NoCall
    /\ \E i \in 1..Len(strip_list), q \in ForwardPoints :
           /\ call' = [fn |-> "to_bl_coords", strip |-> i, args |-> q,
                       tol |-> None, of |-> None]
           /\ result' = sg_to_bl_coords(strip_list[i], q[1], q[2], q[3], q[4])
    /\ UNCHANGED << plan_state, strip_list, by_annealing, by_strip >>

\* single_strip_transform_factory(*astuple(strip)).inverse(x, y)
ToDataCoords ==
    /\ call = NoCall
    /\ \E i \in 1..Len(strip_list) : \E o \in Offsets(strip_list[i]) :
           LET x == strip_list[i].reference_x - o[1]
               y == strip_list[i].reference_y + o[2]
           IN  /\ call' = [fn |-> "to_data_coords", strip |-> i,
                           args |-> << x, y >>, tol |-> None, of |-> None]
               /\ result' = sg_to_data_coords(strip_list[i], x, y)
    /\ UNCHANGED << plan_state, strip_list, by_annealing, by_strip >>

\* the run-time test: ret = pair.inverse(np.round(x, 2), y) on the x, y that
\* pair.forward of the same strip has just returned
RoundTrip ==
    /\ call.fn = "to_bl_coords"
    /\ result.ok
    /\ call' = [fn |-> "to_data_coords", strip |-> call.strip,
                args |-> result.val, tol |-> None, of |-> call.args]
    /\ result' = sg_to_data_coords(strip_list[call.strip], result.val[1],
                                   result.val[2])
    /\ UNCHANGED << plan_state, strip_list, by_annealing, by_strip >>

\* pair.forward(*q): the lookup in by_annealing, then the scan
StripListForward ==
    /\ call = NoCall
    /\ \E q \in ForwardPoints :
           /\ call' = [fn |-> "forward", strip |-> 0, args |-> q,
                       tol |-> None, of |-> None]
           /\ result' = sg_forward(by_annealing, strip_list, q[1], q[2], q[3], q[4])
           /\ by_annealing' = defaultdict_getitem(by_annealing, << q[2], q[3], q[4] >>)
    /\ UNCHANGED << plan_state, strip_list, by_strip >>

\* pair.inverse(x, y)
StripListInverse ==
    /\ call = NoCall
    /\ \E xy \in InversePoints(strip_list) :
           /\ call' = [fn |-> "inverse", strip |-> 0, args |-> xy,
                       tol |-> None, of |-> None]
           /\ result' = sg_inverse(by_strip, strip_list, xy[1], xy[2])
    /\ UNCHANGED << plan_state, strip_list, by_annealing, by_strip >>

\* snap_factory(strip_list, **tol)(*q)
SnapCall ==
    /\ call = NoCall
    /\ \E tol \in Tols, q \in SnapPoints :
           /\ call' = [fn |-> "snap", strip |-> 0, args |-> q, tol |-> tol,
                       of |-> None]
           /\ result' = sg_snap(strip_list, tol, q[1], q[2], q[3], q[4])
    /\ UNCHANGED << plan_state, strip_list, by_annealing, by_strip >>

\* the plan: real_target = transform_pair.forward(*target) on the target
\* that snap_function has just returned
SnapForward ==
    /\ call.fn = "snap"
    /\ result.ok
    /\ call' = [fn |-> "forward", strip |-> 0, args |-> result.val,
                tol |-> call.tol, of |-> call.args]
    /\ result' = sg_forward(by_annealing, strip_list, result.val[1],
                            result.val[2], result.val[3], result.val[4])
    /\ by_annealing' = defaultdict_getitem(by_annealing, << result.val[2],
                                             result.val[3], result.val[4] >>)
    /\ UNCHANGED << plan_state, strip_list, by_strip >>

\* snap is given the point it has just returned
SnapAgain ==
    /\ call.fn = "snap"
    /\ call.of = None
    /\ result.ok
    /\ call' = [fn |-> "snap", strip |-> 0, args |-> result.val,
                tol |-> call.tol, of |-> call.args]
    /\ result' = sg_snap(strip_list, call.tol, result.val[1], result.val[2],
                         result.val[3], result.val[4])
    /\ UNCHANGED << plan_state, strip_list, by_annealing, by_strip >>

\* the caller is done with what the call returned or raised
Return ==
    /\ call # NoCall
    /\ call' = NoCall
    /\ result' = NoResult
    /\ UNCHANGED << plan_state, strip_list, by_annealing, by_strip >>

GeoNext ==
    \/ ToBlCoords \/ ToDataCoords \/ RoundTrip
    \/ StripListForward \/ StripListInverse
    \/ SnapCall \/ SnapForward \/ SnapAgain
    \/ Return

GeoSpec == GeoInit /\ [][GeoNext]_vars

\* ---------------------------------------------- the recommender callback
\* The documents of the run engine reach the callback of recommender_factory
\* in the order they were published, one at a time.  RunRouter hands an event
\* to the callback as an event_page of that one event.
RunRouter(name) == IF name = "event" THEN "event_page" ELSE name

\* what no step of the callback changes
controller ==
    << first_point, snap_function, reccomender_timeout, md, _md, calls,
       earlier, alive, nPre, geometry, num, max_count, session, agent, pc,
       locals, motor, moving, ctrl, run, starts, ret, history, trace >>

\* queue.put(value) in the callback, the document m being handled
queue_put(m, value) ==
    /\ queue' = RedisQueue_put(queue, nPut + 1, value)
    /\ nPut' = nPut + 1
    /\ puts' = puts \cup { [id |-> nPut + 1, run |-> m.run,
                            name |-> RunRouter(m.name), value |-> value] }

\* what ask returns: a point, or None for NoRecommendation
Asked == { P3, None }

\* callback("start", doc)
CallbackStart ==
    /\ zmq # <<>>
    /\ RunRouter(Head(zmq).name) = "start"
    /\ zmq' = Tail(zmq)
    /\ IF "batch_count" \notin dict_keys(Head(zmq).doc)
       THEN UNCHANGED << queue, nPut, puts >>
       ELSE IF dict_get(Head(zmq).doc, "batch_count") > max_count
       THEN queue_put(Head(zmq), None)
       ELSE UNCHANGED << queue, nPut, puts >>
    /\ UNCHANGED controller

\* callback("event_page", doc): tell, then ask, which returns a point or
\* raises NoRecommendation
CallbackEventPage ==
    /\ zmq # <<>>
    /\ RunRouter(Head(zmq).name) = "event_page"
    /\ zmq' = Tail(zmq)
    /\ \E value \in Asked : queue_put(Head(zmq), value)
    /\ UNCHANGED controller

\* callback(name, doc) with another document: "is not handled"
CallbackOther ==
    /\ zmq # <<>>
    /\ RunRouter(Head(zmq).name) \notin { "start", "event_page" }
    /\ zmq' = Tail(zmq)
    /\ UNCHANGED << controller, queue, nPut, puts >>

Callback == CallbackStart \/ CallbackEventPage \/ CallbackOther

\* The recommender is the callback: max_count is the 1 of the script or 0, a
\* run has one event or two, the plan blocks for ever or for 1 s.
LoopInit ==
    /\ Start({ None })
    /\ NoGeometry
    /\ first_point = P1
    /\ snap_function = "snap"
    /\ reccomender_timeout \in { 0, 100 }
    /\ ~alive
    /\ nPre = 0
    /\ num \in { 1, 2 }
    /\ max_count \in { 0, 1 }

\* the steps of the plan, which takes MaxRuns measurements at most in a call
\* and whose motors come to rest where they were sent
LoopPlan ==
    /\ pc = "take_reading" => Len(starts) < MaxRuns
    /\ Plan
    /\ pc' = "rd_x" => motor' = real_target

LoopNext == LoopPlan \/ Callback

LoopSpec == LoopInit /\ [][LoopNext]_vars

\* ------------------------------------ a second call beside the callback
\* adaptive_plan is called again in the session while the callback goes on
\* handling the documents published: max_count=0, one event in a run, the
\* default timeout of 1 s
AgainInit ==
    /\ LoopInit
    /\ reccomender_timeout = 100
    /\ num = 1
    /\ max_count = 0

AgainNext == LoopPlan \/ Callback \/ Call

AgainSpec == AgainInit /\ [][AgainNext]_vars

\* ------------------------------------------------- a session is used
\* no plan runs and no transform is built
SessionInit ==
    /\ Init
    /\ first_point = P1
    /\ snap_function = "snap"
    /\ reccomender_timeout = 100
    /\ ~alive
    /\ nPre = 0

\* the with statement, as test_connect runs it, is run to its end
With ==
    /\ session = NoSession
    /\ \E url \in Urls, body \in Bodies, answers \in BOOLEAN :
           session' = [url |-> url, body |-> body, answers |-> answers,
                       left |-> with(url, body, answers)]
    /\ UNCHANGED << geometry, first_point, snap_function, reccomender_timeout,
                    md, _md, calls, earlier, alive, queue, nPre, nPut, pc, j,
                    next_point, target, real_target, motor, moving, real_x,
                    real_y, pseudo_target, ctrl, uids, run, starts, ret,
                    drained, consumed, trace, num, zmq, max_count, puts, agent >>

SessionNext == With

SessionSpec == SessionInit /\ [][SessionNext]_vars

\* ------------------------------------------ the badseed recommender
\* what no step of the badseed recommender changes
others ==
    << geometry, first_point, snap_function, reccomender_timeout, md, _md,
       calls, earlier, alive, queue, nPre, nPut, pc, j, next_point, target,
       real_target, motor, moving, real_x, real_y, pseudo_target, ctrl, uids,
       run, starts, ret, drained, consumed, trace, num, zmq, max_count, puts,
       session >>

\* the script builds MarkovAgent(args.n_samples, max_quality=3, seed=1234)
New ==
    /\ agent = NoAgent
    /\ \E n_samples \in 1..3 : agent' = MarkovAgent(n_samples, 3, 1)
    /\ UNCHANGED others

\* callback("start", doc): adaptive_object.current = doc[sample_index_key]
AgentStart ==
    /\ agent.pc = "idle"
    /\ \E current_index \in 0..(agent.n_samples - 1) :
           agent' = [agent EXCEPT !.current = << current_index >>]
    /\ UNCHANGED others

\* callback("event_page", doc): adaptive_object.tell(data), then
\* adaptive_object.ask(1) is entered: accept = False, proposal = None
Tell ==
    /\ agent.pc = "idle"
    /\ agent.current # None
    /\ agent.counter[agent.current[1] + 1] < MaxTells
    /\ \E tier \in Tiers :
           agent' = [tell(agent, tier) EXCEPT !.pc = "ask", !.proposal = None]
    /\ UNCHANGED others

\* one turn of the loop of ask: the proposal is not accepted
AskReject ==
    /\ agent.pc = "ask"
    /\ \E proposal \in 0..(agent.n_samples - 1), unit \in 0..(Units - 1) :
           /\ ~accepts(agent, proposal, unit)
           /\ agent' = [agent EXCEPT !.proposal = << proposal >>,
                                     !.rng = 1 - @]
    /\ UNCHANGED others

\* one turn of the loop of ask: the proposal is accepted, ask returns it and
\* the callback puts it in its queue
AskAccept ==
    /\ agent.pc = "ask"
    /\ \E proposal \in 0..(agent.n_samples - 1), unit \in 0..(Units - 1) :
           /\ accepts(agent, proposal, unit)
           /\ agent' = [agent EXCEPT !.proposal = << proposal >>,
                                     !.asked = << proposal >>,
                                     !.rng = 1 - @,
                                     !.pc = "idle"]
    /\ UNCHANGED others

AgentInit ==
    /\ Init
    /\ first_point = P1
    /\ snap_function = "snap"
    /\ reccomender_timeout = 100
    /\ ~alive
    /\ nPre = 0

AgentNext == New \/ AgentStart \/ Tell \/ AskReject \/ AskAccept

AgentSpec == AgentInit /\ [][AgentNext]_vars

\* The process keeps running: a turn of the loop that can be taken is taken,
\* and a proposal that can be accepted again and again is accepted in the
\* end (every turn accepts it with a probability that does not shrink).
AgentFairSpec ==
    /\ AgentSpec
    /\ WF_vars(AskReject \/ AskAccept)
    /\ SF_vars(AskAccept)

\* ---------------------------------------------------------------- claims
Steps(name) == { i \in 1..Len(trace) : trace[i][1] = name }
Gets == drained \o consumed

\* C1: when the blocking get returns None the plan ends and returns the
\* accumulated list of run identifiers, one per measurement of this
\* invocation, in iteration order.
C1_ReturnsUids ==
    pc = "done" =>
        /\ ret.kind = "list"
        /\ ret.uids = uids
        /\ uids = [i \in 1..(j + 1) |-> i]

\* the channel holds [P2, P3, None], put in that order before the plan
\* starts, and nothing puts afterwards
C2_Scenario == nPre = 3 /\ ~alive

\* C2 as stated: in that scenario the run ends TERMINATED with exactly 2
\* measurement identifiers.
C2_Original ==
    (C2_Scenario /\ (pc = "done" \/ ret.kind = "TimeoutError")) =>
        (pc = "done" /\ Len(uids) = 2)

\* C2 as amended: in that scenario the initial drain discards all three
\* entries, no blocking get ever returns one of them, at most one measurement
\* is taken and the run never reaches "done"; once the drain is over the
\* list is empty.
C2_Amended ==
    C2_Scenario =>
        /\ pc # "done"
        /\ consumed = <<>>
        /\ Len(uids) <= 1
        /\ pc # "drain" => (queue = <<>> /\ Len(drained) = 3)

C2_Witness ==
    /\ C2_Scenario
    /\ pc = "raised"
    /\ ret.kind = "TimeoutError"
    /\ Len(uids) = 1
    /\ Len(drained) = 3

\* C3: every entry that is in the channel when the plan starts is removed
\* before the first step of the loop (so before the first move), none is
\* returned by a blocking get, and the first target is first_point.
C3_StaleDiscarded ==
    /\ (\E i \in 1..Len(queue) : queue[i].id <= nPre) =>
           (pc = "drain" /\ \A i \in 1..Len(trace) : trace[i][1] = "drain_get")
    /\ \A i \in 1..Len(consumed) : consumed[i] > nPre
    /\ (j = 0 /\ pc \notin { "drain", "done" }) => next_point = first_point
    /\ (pc # "drain") => \A n \in 1..nPre : \E i \in 1..Len(drained) : drained[i] = n

C3_Witness ==
    /\ nPre = 3
    /\ Len(consumed) > 0
    /\ Steps("mov") # {}

\* C4: a timeout of the blocking get that follows a measurement ends the
\* plan with TimeoutError; it is the last step of the plan, directly after
\* the get and the measurement of the same iteration.
C4_TimeoutAborts ==
    \A i \in Steps("TimeoutError") :
        /\ i = Len(trace)
        /\ i > 2
        /\ trace[i - 1] = << "get", trace[i][2] >>
        /\ trace[i - 2] = << "uid", trace[i][2] >>
        /\ pc = "raised"
        /\ ret.kind = "TimeoutError"

C4_Witness ==
    /\ Steps("TimeoutError") # {}
    /\ alive
    /\ queue # <<>>
    /\ j > 0

\* C5: RedisQueue is FIFO: when all values are put before any is read, the
\* gets return them in the order they were put.
C5_FIFO ==
    ~alive => \A i \in 1..Len(Gets) : Gets[i] = i

\* C6 as stated: a blocking get on a channel that receives no put ends with
\* a timeout error, whatever the timeout, 0 included.
C6_Original ==
    (pc = "blpop" /\ ~alive) ~> (ret.kind = "TimeoutError")

\* C6 as amended: a blocking get with a timeout other than 0 (0.01 s
\* included) on a channel that receives no put ends with a timeout error;
\* with timeout 0, the default of RedisQueue.get, BLPOP blocks for ever.
C6_Amended ==
    (pc = "blpop" /\ ~alive /\ reccomender_timeout # 0) ~> (ret.kind = "TimeoutError")

C6_Witness ==
    /\ ~alive
    /\ reccomender_timeout = 1
    /\ pc = "raised"
    /\ ret.kind = "TimeoutError"
    /\ trace[Len(trace) - 1][1] = "get"

Order ==
    << "snap", "forward", "mov", "settled", "rd_x", "rd_y", "inverse", "mv",
       "take_reading", "uid", "get", "recv" >>
Rank(name) == CHOOSE k \in 1..Len(Order) : Order[k] = name
IsStep(name) == \E k \in 1..Len(Order) : Order[k] = name
FirstStep == IF snap_function = "snap" THEN "snap" ELSE "forward"

\* C8: in every iteration the steps happen in the order snap (when there is
\* a snap function), forward, move (set, then settled), read x, read y,
\* inverse, set pseudo axes, measure, get; an iteration begins only after the
\* get of the one before has returned; the measurement does not start while
\* the motors move or before their settled position has been read back, and
\* the get does not start before the measurement has returned its uid.
C8_StepOrder ==
    /\ \A i \in 1..Len(trace) :
           IsStep(trace[i][1]) =>
               IF i = 1 \/ trace[i - 1][1] = "drain_get"
               THEN trace[i] = << FirstStep, 0 >>
               ELSE IF trace[i - 1][1] = "recv"
               THEN trace[i] = << FirstStep, trace[i - 1][2] + 1 >>
               ELSE /\ IsStep(trace[i - 1][1])
                    /\ trace[i][2] = trace[i - 1][2]
                    /\ Rank(trace[i][1]) = Rank(trace[i - 1][1]) + 1
    /\ pc \in { "take_reading", "reading" } =>
           /\ ~moving
           /\ << real_x, real_y >> = motor
    /\ pc = "blpop" => Len(uids) = j + 1 /\ uids[j + 1] = run.uid

C8_Witness ==
    /\ pc = "blpop"
    /\ j = 2
    /\ snap_function = "snap"
    /\ motor # real_target

\* C9: the data-space point written to the pseudo axes and read by the
\* measurement is transform.inverse of the read-back position of the motors,
\* also when that position is not the commanded one.
C9_ActualPointRecorded ==
    /\ pc \in { "take_reading", "reading" } =>
           /\ inverse(motor[1], motor[2]).ok
           /\ ctrl = inverse(motor[1], motor[2]).val
    /\ uids # <<>> =>
           /\ inverse(run.x, run.y).ok
           /\ run.ctrl = inverse(run.x, run.y).val

C9_Witness ==
    /\ pc = "get"
    /\ << run.x, run.y >> = motor
    /\ motor # real_target
    /\ run.ctrl # target
    /\ target # next_point

\* C10: when the move or the measurement fails the error reaches the caller
\* at once, nothing further is done, and the identifiers of the measurements
\* already completed remain available to the caller.
C10_PartialResultsKept ==
    \A i \in Steps("MoveError") \cup Steps("MeasureError") :
        /\ i = Len(trace)
        /\ pc = "raised"
        /\ ret.kind = trace[i][1]
        /\ Len(consumed) = trace[i][2]
        /\ ret.uids = uids

\* every run of this call carries the batch_id of the first, and the j-th
\* run (counting from 0) carries batch_count = j
C11_OneBatch ==
    \A i \in 1..Len(starts) :
        /\ starts[i].batch_id = starts[1].batch_id
        /\ starts[i].batch_count = i - 1

\* C11 as stated: all measurements of one call of adaptive_plan carry the
\* same batch_id, the j-th carries batch_count = j, and the batch_id differs
\* from the one of every earlier call, whatever md the caller gives.
C11_Original ==
    /\ C11_OneBatch
    /\ \A i \in 1..Len(starts) : starts[i].batch_id \notin earlier

\* C11 as amended: all measurements of one call carry the same batch_id and
\* the j-th carries batch_count = j, whatever md holds (a batch_count in md
\* is overwritten); when md has no batch_id the batch_id is the generated
\* one, which no earlier call carries; a batch_id in md replaces the
\* generated one.
C11_Amended ==
    /\ C11_OneBatch
    /\ \A i \in 1..Len(starts) :
           IF "batch_id" \in dict_keys(md)
           THEN starts[i].batch_id = dict_get(md, "batch_id")
           ELSE /\ starts[i].batch_id = uuid4(calls)
                /\ starts[i].batch_id \notin earlier

C11_Witness ==
    /\ calls = 2
    /\ earlier # {}
    /\ Len(starts) = 2
    /\ "batch_count" \in dict_keys(md)

\* C12: for every strip and every ti strictly inside [ti_min, ti_max], the
\* inverse of the strip applied to the (x, y) its forward returned for
\* (ti, temperature, annealing_time, thickness) returns that same tuple.
C12_RoundTrip ==
    (/\ call.fn = "to_data_coords"
     /\ call.of # None
     /\ ti_min(strip_list[call.strip]) < call.of[1]
     /\ call.of[1] < ti_max(strip_list[call.strip]))
    => result = Ok(call.of)

\* C13: the forward of a strip raises when (temperature, annealing_time,
\* thickness) is not the key of the strip or ti < ti_min or ti > ti_max, and
\* returns a position for every ti of [ti_min, ti_max], ends included, when
\* the key is that of the strip.
C13_ForwardDomain ==
    call.fn = "to_bl_coords" =>
        LET strip == strip_list[call.strip]
            q == call.args
        IN  /\ result.ok <=> /\ sg_key(strip) = << q[2], q[3], q[4] >>
                             /\ ti_min(strip) <= q[1]
                             /\ q[1] <= ti_max(strip)
            /\ result.ok => Len(result.val) = 2
            /\ ~result.ok => result.val = "ValueError"

C13_Witness ==
    /\ call.fn = "to_bl_coords"
    /\ result.ok
    /\ call.args[1] = ti_max(strip_list[call.strip])

\* the strips of the key of the forward call whose ti range holds its ti
C14_Fits ==
    { i \in 1..Len(strip_list) :
          /\ sg_key(strip_list[i]) = << call.args[2], call.args[3], call.args[4] >>
          /\ ti_min(strip_list[i]) <= call.args[1]
          /\ call.args[1] <= ti_max(strip_list[i]) }

\* C14: the forward of a strip list returns what the forward of the first
\* strip in input order does, among those of exactly the key whose
\* [ti_min, ti_max] holds ti (the earlier of two such strips with
\* overlapping ranges); it raises when the key is absent or no range of the
\* key holds ti.
C14_FirstCandidate ==
    call.fn = "forward" =>
        IF C14_Fits = {}
        THEN result = Raise("ValueError")
        ELSE /\ result.ok
             /\ result = sg_to_bl_coords(strip_list[First(C14_Fits)], call.args[1],
                                         call.args[2], call.args[3], call.args[4])

C14_Witness ==
    /\ call.fn = "forward"
    /\ Cardinality(C14_Fits) = 2
    /\ result.ok

\* C15: once built, by_annealing and by_strip never change: no call adds,
\* removes or reorders an entry; a forward call with a key that has no strip
\* leaves the set of keys as it was.
C15_Immutable ==
    /\ by_annealing = sg_by_annealing(strip_list)
    /\ by_strip = sg_by_strip(strip_list)

\* the entries of by_strip whose band holds the y of the inverse call
C16_InBand ==
    { n \in 1..Len(by_strip) : sg_in_band(by_strip[n][1], call.args[2]) }
\* those whose own inverse accepts the point as well
C16_Accepting ==
    { n \in C16_InBand :
          sg_to_data_coords(strip_list[by_strip[n][2]], call.args[1], call.args[2]).ok }

\* C16 as stated: the inverse of a strip list returns the inverse of the
\* first strip in stored order whose band holds y and whose extent holds x,
\* and raises only when there is no such strip.
C16_Original ==
    call.fn = "inverse" =>
        IF C16_Accepting = {}
        THEN ~result.ok
        ELSE result = sg_to_data_coords(strip_list[by_strip[First(C16_Accepting)][2]],
                                        call.args[1], call.args[2])

\* C16 as amended: the inverse of a strip list returns or raises what the
\* inverse of the first strip in stored order whose band holds y does, x
\* playing no part in the choice; it raises when no band holds y, and also
\* when that first strip refuses the point although a later strip of the
\* same band accepts it.
C16_Amended ==
    call.fn = "inverse" =>
        IF C16_InBand = {}
        THEN result = Raise("ValueError")
        ELSE result = sg_to_data_coords(strip_list[by_strip[First(C16_InBand)][2]],
                                        call.args[1], call.args[2])

C16_Witness ==
    /\ call.fn = "inverse"
    /\ ~result.ok
    /\ C16_Accepting # {}

\* C17: snap ends for every request and every tolerance: when no strip is
\* left for the rounded thickness it tries once more with the other
\* thickness, and when none is left there either it raises an error of its
\* own instead of trying again.
C17_RetriesOnce ==
    call.fn = "snap" =>
        /\ result.frames <= 2
        /\ ~result.ok => (result.frames = 2 /\ result.val # "RecursionError")

\* the strips the filters of the snap call leave for a thickness
C18_Left(thickness) ==
    l_strips(strip_list, call.tol, call.args[1], call.args[2], call.args[3],
             thickness)

\* C18: when the filters leave no strip of the rounded thickness and at
\* least one of the other thickness, snap returns a point of a strip of the
\* other thickness that the filters left; snap raises only when they leave
\* no strip of either thickness.
C18_FlipSucceeds ==
    call.fn = "snap" =>
        LET thickness == round_clip(call.args[4])
        IN  /\ (C18_Left(thickness) = {} /\ C18_Left(1 - thickness) # {}) =>
                   /\ result.ok
                   /\ result.best \in C18_Left(1 - thickness)
                   /\ result.val[4] = 1 - thickness
                   /\ result.val[2] = strip_list[result.best].temperature
                   /\ result.val[3] = strip_list[result.best].annealing_time
            /\ ~result.ok =>
                   (C18_Left(thickness) = {} /\ C18_Left(1 - thickness) = {})

C18_Witness ==
    /\ call.fn = "snap"
    /\ C18_Left(round_clip(call.args[4])) = {}
    /\ result.ok
    /\ result.val[4] = 1 - round_clip(call.args[4])

\* C19: the ti that snap returns is strictly inside the range of the strip
\* it chose, ti_min < ti < ti_max, whatever the width of the strip.
C19_StrictlyInside ==
    (call.fn = "snap" /\ result.ok) =>
        /\ ti_min(strip_list[result.best]) < result.val[1]
        /\ result.val[1] < ti_max(strip_list[result.best])

\* C20: with a temperature tolerance snap drops exactly the strips whose
\* |strip.temperature - temperature| exceeds it, a strip at a distance equal
\* to the tolerance being kept (with tolerance 0, a strip of exactly the
\* temperature); the same, independently, for the annealing-time tolerance.
C20_DropsBeyondTolerance ==
    call.fn = "snap" =>
        \A thickness \in { 0, 1 } :
            C18_Left(thickness) =
                { i \in 1..Len(strip_list) :
                      /\ strip_list[i].thickness = thickness
                      /\ call.tol.temp_tol # None =>
                             ~(Abs(strip_list[i].temperature - call.args[2])
                               > call.tol.temp_tol[1])
                      /\ call.tol.time_tol # None =>
                             ~(Abs(strip_list[i].annealing_time - call.args[3])
                               > call.tol.time_tol[1])
                      /\ call.tol.Ti_tol # None =>
                             /\ ti_min(strip_list[i]) - call.tol.Ti_tol[1] <= call.args[1]
                             /\ call.args[1] <= ti_max(strip_list[i]) + call.tol.Ti_tol[1] }


\* the square of the distance of strip i to the request of the snap call in
\* (temperature, annealing_time)
C21_Dist2(i) ==
    (strip_list[i].temperature - call.args[2]) * (strip_list[i].temperature - call.args[2])
    + (strip_list[i].annealing_time - call.args[3]) * (strip_list[i].annealing_time - call.args[3])

\* C21: of the strips the thickness and tolerance filters leave, snap
\* chooses one at the least Euclidean distance to the request in
\* (temperature, annealing_time) and, of several at that distance, the one
\* that comes first in the strip list; the temperature, annealing_time and
\* thickness it returns are those of the chosen strip.
C21_NearestFirst ==
    (call.fn = "snap" /\ result.ok) =>
        LET left == C18_Left(result.val[4])
        IN  /\ result.best \in left
            /\ \A k \in left : C21_Dist2(result.best) <= C21_Dist2(k)
            /\ \A k \in left :
                   C21_Dist2(k) = C21_Dist2(result.best) => result.best <= k
            /\ result.val[2] = strip_list[result.best].temperature
            /\ result.val[3] = strip_list[result.best].annealing_time
            /\ result.val[4] = strip_list[result.best].thickness

C21_Witness ==
    /\ call.fn = "snap"
    /\ result.ok
    /\ C21_Dist2(result.best) > 0
    /\ \E k \in C18_Left(result.val[4]) :
           k > result.best /\ C21_Dist2(k) = C21_Dist2(result.best)


\* the runs of this call all of whose documents the callback has handled
C22_Seen ==
    { k \in 1..Len(starts) :
          /\ k <= Len(uids) \/ ret.kind = "MeasureError"
          /\ \A i \in 1..Len(zmq) : zmq[i].run # << calls, k >> }

\* C22: for each run the callback has seen from its start document to its
\* stop document it has put exactly one item in the queue, a recommendation
\* or None: never none and never two, whatever batch_count and the number
\* of event pages of the run.
C22_OnePutPerRun ==
    \A k \in C22_Seen :
        Cardinality({ p \in puts : p.run = << calls, k >> }) = 1

\* C23: the callback puts None in time for the plan to take max_count
\* measurements at most: a plan that numbers its measurements 0, 1, 2, ...
\* and reads what the callback puts never starts measurement max_count + 1.
C23_AtMostMaxCount ==
    max_count >= 1 => Len(starts) <= max_count


\* C24: with a server that answers, constructing a session from a URL and
\* using it in a with statement raises nothing of its own: entering posts
\* environment/open once, leaving posts environment/close once after the
\* body, and an exception of the body is raised again.
C24_SessionWorks ==
    (session # NoSession /\ session.answers) =>
        /\ session.left.exc = session.body
        /\ session.left.posts =
               << << session.url[1], "://", session.url[2], "/", "environment/open" >>,
                  << session.url[1], "://", session.url[2], "/", "environment/close" >> >>


\* C25: every entry adaptive_plan takes from the channel after its drain, as
\* its next target or as its signal to end, was put by the callback for a
\* document of a run of the same call: what the callback puts for a run of an
\* earlier call once the drain is over is not taken.
C25_OwnRecommendations ==
    \A i \in 1..Len(consumed) :
        \A p \in puts : p.id = consumed[i] => p.run[1] = calls


\* C26: beside the callback, once the drain is over, the channel never holds
\* more than one entry, the plan has one get outstanding at most, and the
\* plan never waits for ever on an empty channel while the callback has no
\* document left to handle.
C26_InStep ==
    pc # "drain" =>
        /\ Len(queue) <= 1
        /\ Cardinality(Steps("get")) - Len(consumed) \in { 0, 1 }
        /\ ~(/\ pc = "blpop"
             /\ reccomender_timeout = 0
             /\ queue = <<>>
             /\ zmq = <<>>)


\* C27: the forward of a strip list accepts every point that the snap
\* function built from the same strip list returns, whatever the tolerances
\* and the request: the move to a snapped target never fails at forward.
C27_SnappedIsReachable ==
    (call.fn = "forward" /\ call.of # None) => result.ok

\* C28: the inverse of a strip accepts the position that the forward of the
\* same strip returned, for every ti the forward accepts, ti_min and ti_max
\* included: with motors at rest exactly where they were sent the plan never
\* fails at inverse.
C28_InverseAcceptsForward ==
    (call.fn = "to_data_coords" /\ call.of # None) => result.ok

\* C29: snap given a point it returned returns that point again, for every
\* strip list, tolerance and request on which it returns a point.
C29_Idempotent ==
    (call.fn = "snap" /\ call.of # None) =>
        /\ result.ok
        /\ result.val = call.args


\* C30: in every state an agent can be in, MarkovAgent.ask comes to an end
\* and returns the number of a sample, 0 .. n_samples - 1: also when tell
\* has given every sample the quality max_quality.
C30_AskReturns ==
    /\ [](agent.asked # None => agent.asked[1] \in 0..(agent.n_samples - 1))
    /\ (agent.pc = "ask") ~> (agent.pc = "idle")

=============================================================================
